---- MODULE Spec2Model ----
(***************************************************************************)
(* Model of the healthcare reminder system: the quality-gated pipeline     *)
(* (simple_reminder.py), the auto-scheduler, the dashboard bookkeeping,    *)
(* its persistence and the analytics read API (app.py).                    *)
(*                                                                         *)
(* Scores are kept in thousandths (4.8 is 4800) so that the arithmetic of  *)
(* get_average and of the read API stays exact in the integers.            *)
(***************************************************************************)
EXTENDS Integers, Sequences, FiniteSets, TLC

(***************************************************************************)
(* Bounds of the model                                                     *)
(***************************************************************************)
\* number of pipeline runs that get as far as the evaluator in one behaviour
MaxRuns == 1
\* number of clock ticks that pass in one behaviour
MaxTicks == 1
\* number of faults in one behaviour: failed writes of the durable file and
\* restarts of the process
MaxFaults == 1

(***************************************************************************)
(* Program constants                                                       *)
(***************************************************************************)
\* app.py:178-179  "Keep only the last 50 messages"
MaxMessages == 50
\* app.py:163-164  message text cap
MaxMessageChars == 100
\* app.py:282  messages[-10:]
RecentCount == 10
\* app.py:245  range(6, -1, -1)
ChartDays == 7
\* simple_reminder.py:45  minimum_quality_score = 4.0
minimum_quality_score == 4000
\* simple_reminder.py:246  "Score each criterion from 1 to 5"
MaxScore == 5

\* the clock is counted in ticks, two to a calendar day
TicksPerDay == 2
\* the behaviour starts at the last tick of 2028-02-28 (day 21242 since
\* 1970-01-01), so that the following days are a leap day and a change of month
StartDay == 21242
StartNow == (StartDay + 1) * TicksPerDay - 1

(***************************************************************************)
(* Calendar: datetime.strftime as used by the program                      *)
(***************************************************************************)
DayOf(t) == t \div TicksPerDay

\* proleptic Gregorian date of a day number (days since 1970-01-01)
CivilFromDays(z) ==
    LET zz  == z + 719468
        era == zz \div 146097
        doe == zz - era * 146097
        yoe == (doe - doe \div 1460 + doe \div 36524 - doe \div 146096) \div 365
        doy == doe - (365 * yoe + yoe \div 4 - yoe \div 100)
        mp  == (5 * doy + 2) \div 153
        d   == doy - (153 * mp + 2) \div 5 + 1
        m   == IF mp < 10 THEN mp + 3 ELSE mp - 9
        y   == yoe + era * 400 + (IF m <= 2 THEN 1 ELSE 0)
    IN  [year |-> y, month |-> m, day |-> d]

\* strftime("%Y-%m-%d") of a day
DateKey(day) ==
    LET c == CivilFromDays(day) IN <<c.year, "-", c.month, "-", c.day>>

WeekdayNames == <<"Sunday", "Monday", "Tuesday", "Wednesday", "Thursday",
                  "Friday", "Saturday">>
WeekdayLens == <<6, 6, 7, 9, 8, 6, 8>>
MonthNames == <<"January", "February", "March", "April", "May", "June", "July",
                "August", "September", "October", "November", "December">>
MonthLens == <<7, 8, 5, 5, 3, 4, 4, 6, 9, 7, 8, 8>>
ShortDayNames == <<"Sun", "Mon", "Tue", "Wed", "Thu", "Fri", "Sat">>

\* index into WeekdayNames; 1970-01-01 was a Thursday
WeekdayIndex(day) == ((day + 4) % 7) + 1

\* strftime("%a") of a day
DayLabel(day) == ShortDayNames[WeekdayIndex(day)]

(***************************************************************************)
(* Text: a string is a sequence of chunks, each a slice of a literal       *)
(***************************************************************************)
Chunk(s, n) == [s |-> s, from |-> 0, n |-> n]

RECURSIVE TextLen(_)
TextLen(text) ==
    IF text = <<>> THEN 0 ELSE Head(text).n + TextLen(Tail(text))

\* text[:k]
RECURSIVE TextPrefix(_, _)
TextPrefix(text, k) ==
    IF text = <<>> \/ k <= 0 THEN <<>>
    ELSE IF Head(text).n <= k
         THEN <<Head(text)>> \o TextPrefix(Tail(text), k - Head(text).n)
         ELSE <<[Head(text) EXCEPT !.n = k]>>

Ellipsis == <<Chunk("...", 3)>>

(***************************************************************************)
(* Appointment                                                             *)
(***************************************************************************)
\* app.py APPOINTMENT_DETAILS
APPOINTMENT_DETAILS ==
    [type     |-> <<Chunk("Annual Health Checkup", 21)>>,
     doctor   |-> <<Chunk("Dr. Sarah Wilson", 16)>>,
     location |-> <<Chunk("City Health Clinic", 18)>>]

\* Settings.patient_name
patient_name == <<Chunk("Patient", 7)>>

\* the appointment the scheduler builds: tomorrow at 10:00
MakeAppointment(t) ==
    [patient_name     |-> patient_name,
     appointment_type |-> APPOINTMENT_DETAILS.type,
     doctor_name      |-> APPOINTMENT_DETAILS.doctor,
     clinic_location  |-> APPOINTMENT_DETAILS.location,
     appointment_day  |-> DayOf(t) + 1,
     hour             |-> 10,
     minute           |-> 0]

TwoDigits(n) == <<[s |-> "digits", from |-> n, n |-> 2]>>

\* strftime("%A, %B %d at %I:%M %p")
get_formatted_time(appointment) ==
    LET c == CivilFromDays(appointment.appointment_day)
        w == WeekdayIndex(appointment.appointment_day)
        h == IF appointment.hour % 12 = 0 THEN 12 ELSE appointment.hour % 12
    IN  <<Chunk(WeekdayNames[w], WeekdayLens[w]), Chunk(", ", 2),
          Chunk(MonthNames[c.month], MonthLens[c.month]), Chunk(" ", 1)>>
        \o TwoDigits(c.day) \o <<Chunk(" at ", 4)>> \o TwoDigits(h)
        \o <<Chunk(":", 1)>> \o TwoDigits(appointment.minute)
        \o <<Chunk(IF appointment.hour < 12 THEN " AM" ELSE " PM", 3)>>

\* SAFE_FALLBACK_TEMPLATE.format(name=..., type=..., doctor=..., time=..., location=...)
SAFE_FALLBACK_TEMPLATE(name, type, doctor, time, location) ==
    <<Chunk("Hi ", 3)>> \o name
    \o <<Chunk(", this is a reminder about your ", 32)>> \o type
    \o <<Chunk(" appointment with ", 18)>> \o doctor
    \o <<Chunk(" on ", 4)>> \o time
    \o <<Chunk(" at ", 4)>> \o location
    \o <<Chunk(".", 1)>>

(***************************************************************************)
(* QualityScores and the Gemini evaluator                                  *)
(* A decoded JSON value is tagged with its Python type.  Numbers are in    *)
(* thousandths.                                                            *)
(***************************************************************************)
Num(v) == [t |-> "number", v |-> v]
PyBool(b) == [t |-> "bool", v |-> IF b THEN 1000 ELSE 0]
PyStr == [t |-> "str", v |-> 0]
PyNone == [t |-> "NoneType", v |-> 0]
TypeError == [t |-> "TypeError", v |-> 0]

\* bool is a subclass of int in Python
IsNumber(a) == a.t \in {"number", "bool"}

\* a + b
PyAdd(a, b) ==
    IF a.t = "TypeError" THEN a
    ELSE IF IsNumber(a) /\ IsNumber(b) THEN Num(a.v + b.v)
    ELSE IF a.t = "str" /\ b.t = "str" THEN PyStr
    ELSE TypeError

\* round(n / d, k) in units of `unit` thousandths: the multiple of unit
\* nearest to n / d, a tie going to the even multiple
PyRound(n, d, unit) ==
    LET m == d * unit
        q == n \div m
        r == n % m
    IN  IF 2 * r < m THEN q * unit
        ELSE IF 2 * r > m THEN (q + 1) * unit
        ELSE IF q % 2 = 0 THEN q * unit ELSE (q + 1) * unit

\* an average cut down to a whole number
GetAverageFloored(scores) ==
    LET total == PyAdd(PyAdd(PyAdd(PyAdd(scores.completeness, scores.tone),
                                   scores.clarity), scores.length),
                       scores.professionalism)
    IN  IF IsNumber(total) THEN Num((total.v \div 5000) * 1000) ELSE TypeError

\* QualityScores.get_average; TypeError when the sum or the division raises
get_average(scores) ==
    LET total == PyAdd(PyAdd(PyAdd(PyAdd(scores.completeness, scores.tone),
                                   scores.clarity), scores.length),
                       scores.professionalism)
    IN  IF IsNumber(total) THEN Num(PyRound(total.v, 5, 10)) ELSE TypeError

ScoreKeys == {"completeness", "tone", "clarity", "length", "professionalism"}

\* a JSON object as the judge may write it
JsonObject(has, c, t, cl, l, p) ==
    [kind |-> "object", has |-> has,
     fields |-> [completeness |-> c, tone |-> t, clarity |-> cl, length |-> l,
                 professionalism |-> p, feedback |-> "judge feedback"]]
AllKeys == ScoreKeys \cup {"feedback"}
IntScores(c, t, cl, l, p) ==
    JsonObject(AllKeys, Num(c * 1000), Num(t * 1000), Num(cl * 1000),
               Num(l * 1000), Num(p * 1000))
NotJson == [kind |-> "invalid", has |-> {}, fields |-> IntScores(0, 0, 0, 0, 0).fields]
JsonArray == [kind |-> "array", has |-> {}, fields |-> IntScores(0, 0, 0, 0, 0).fields]

\* one piece of the judge's text between two ``` marks: an optional
\* "json" language tag followed by a payload
Segment(prefix, payload) == [prefix |-> prefix, payload |-> payload]
Plain(payload) == <<Segment("", payload)>>
Fenced(payload) ==
    <<Segment("", NotJson), Segment("json", payload), Segment("", NotJson)>>

\* json.loads of a segment: "raise" or the decoded payload
JsonLoads(seg) ==
    IF seg.prefix # "" \/ seg.payload.kind = "invalid"
    THEN [kind |-> "raise"]
    ELSE seg.payload

\* create_reminder_system: the evaluator is built with the threshold of Settings
DefaultEvaluator == [minimum_passing_score |-> minimum_quality_score]

\* the sentinel of the except branch of _parse_gemini_response
ParseErrorResult ==
    [scores |-> [completeness |-> Num(0), tone |-> Num(0), clarity |-> Num(0),
                 length |-> Num(0), professionalism |-> Num(0),
                 feedback |-> "Parse error"],
     average_score |-> 0,
     passed_quality_check |-> TRUE]

\* the parse with the comparison of line 312 left out: every result passes
ParsePassesAll(self, response_data) ==
    IF ~response_data.candidates THEN ParseErrorResult
    ELSE
    LET split == response_data.text
        text  == IF Len(split) > 1
                 THEN [split[2] EXCEPT !.prefix = ""]
                 ELSE split[1]
        data  == JsonLoads(text)
    IN  IF data.kind # "object" THEN ParseErrorResult
        ELSE IF ~(ScoreKeys \subseteq data.has) THEN ParseErrorResult
        ELSE
        LET scores == [data.fields EXCEPT
                         !.feedback = IF "feedback" \in data.has THEN @ ELSE ""]
            average == get_average(scores)
        IN  IF average.t = "TypeError" THEN ParseErrorResult
            ELSE [scores |-> scores,
                  average_score |-> average.v,
                  passed_quality_check |-> TRUE]

\* GeminiMessageEvaluator._parse_gemini_response(self, response_data)
\* self: the evaluator object, [minimum_passing_score |-> thousandths]
\* response_data: [candidates |-> BOOLEAN, text |-> sequence of segments]
\* (text is the judge's text split at "```")
_parse_gemini_response(self, response_data) ==
    IF ~response_data.candidates THEN ParseErrorResult
    ELSE
    LET split == response_data.text
        text  == IF Len(split) > 1
                 THEN [split[2] EXCEPT !.prefix = ""]
                 ELSE split[1]
        data  == JsonLoads(text)
    IN  IF data.kind # "object" THEN ParseErrorResult
        ELSE IF ~(ScoreKeys \subseteq data.has) THEN ParseErrorResult
        ELSE
        LET scores == [data.fields EXCEPT
                         !.feedback = IF "feedback" \in data.has THEN @ ELSE ""]
            average == get_average(scores)
        IN  IF average.t = "TypeError" THEN ParseErrorResult
            ELSE [scores |-> scores,
                  average_score |-> average.v,
                  passed_quality_check |-> average.v >= self.minimum_passing_score]

\* GeminiMessageEvaluator.evaluate_message once the HTTP exchange is over.
\* http: [outcome |-> "error" | "body", is_json |-> BOOLEAN, data |-> response_data]
\* response.json() is outside the try of _parse_gemini_response.
evaluate_message(self, http) ==
    IF http.outcome = "error" \/ ~http.is_json
    THEN [raised |-> TRUE, result |-> ParseErrorResult]
    ELSE [raised |-> FALSE, result |-> _parse_gemini_response(self, http.data)]

(***************************************************************************)
(* The Decision Policy                                                     *)
(***************************************************************************)
\* the decision with the doctor and the location exchanged in the template
DecideWithFieldsSwapped(ai_message, evaluation, appointment) ==
    IF evaluation.passed_quality_check
    THEN [message |-> ai_message, status |-> "sent_ai"]
    ELSE [message |-> SAFE_FALLBACK_TEMPLATE(appointment.patient_name,
                                             appointment.appointment_type,
                                             appointment.clinic_location,
                                             get_formatted_time(appointment),
                                             appointment.doctor_name),
          status |-> "sent_fallback"]

\* ReminderPipeline._decide_what_to_send
_decide_what_to_send(ai_message, evaluation, appointment) ==
    IF evaluation.passed_quality_check
    THEN [message |-> ai_message, status |-> "sent_ai"]
    ELSE [message |-> SAFE_FALLBACK_TEMPLATE(appointment.patient_name,
                                             appointment.appointment_type,
                                             appointment.doctor_name,
                                             get_formatted_time(appointment),
                                             appointment.clinic_location),
          status |-> "sent_fallback"]

(***************************************************************************)
(* The dashboard data                                                      *)
(* dashboard_data is a dict; has_messages / has_daily say whether the key  *)
(* is present (a loaded file may lack them).  daily is the dict of         *)
(* DailyStats in insertion order, as a sequence of [key, stats].           *)
(***************************************************************************)
EmptyDashboard ==
    [has_messages |-> TRUE, has_daily |-> TRUE, messages |-> <<>>, daily |-> <<>>]

NewDailyStats ==
    [sent |-> 0, fallback |-> 0, failed |-> 0, total_score |-> 0, count |-> 0]

\* date_key in dashboard_data["daily"]
HasDay(daily, key) == \E i \in 1..Len(daily) : daily[i].key = key
DayIndex(daily, key) == CHOOSE i \in 1..Len(daily) : daily[i].key = key
DayStats(daily, key) == daily[DayIndex(daily, key)].stats

\* datetime.isoformat()
IsoFormat(t) == <<DateKey(DayOf(t)), "T", t % TicksPerDay>>

\* ReminderSystem.send_reminder: the ReminderResult as the dict app.py expects
ResultDict(message_sent, evaluation, status) ==
    [message    |-> message_sent,
     evaluation |-> [scores   |-> evaluation.scores,
                     avg      |-> evaluation.average_score,
                     feedback |-> evaluation.scores.feedback,
                     passed   |-> evaluation.passed_quality_check],
     status     |-> status]

\* the daily update without the final else branch: a failed run is not counted
UpdateDailyNoFailed(daily, result, today) ==
    LET key    == DateKey(today)
        daily1 == IF HasDay(daily, key) THEN daily
                  ELSE Append(daily, [key |-> key, stats |-> NewDailyStats])
        i      == DayIndex(daily1, key)
        s      == daily1[i].stats
        s1     == [s EXCEPT !.count = @ + 1,
                            !.total_score = @ + result.evaluation.avg]
        s2     == IF result.status = "sent_ai" THEN [s1 EXCEPT !.sent = @ + 1]
                  ELSE IF result.status = "sent_fallback"
                       THEN [s1 EXCEPT !.fallback = @ + 1]
                       ELSE s1
    IN  [daily1 EXCEPT ![i].stats = s2]

\* lines 140-159 of record_message_in_dashboard: today's DailyStats
UpdateDaily(daily, result, today) ==
    LET key    == DateKey(today)
        daily1 == IF HasDay(daily, key) THEN daily
                  ELSE Append(daily, [key |-> key, stats |-> NewDailyStats])
        i      == DayIndex(daily1, key)
        s      == daily1[i].stats
        s1     == [s EXCEPT !.count = @ + 1,
                            !.total_score = @ + result.evaluation.avg]
        s2     == IF result.status = "sent_ai" THEN [s1 EXCEPT !.sent = @ + 1]
                  ELSE IF result.status = "sent_fallback"
                       THEN [s1 EXCEPT !.fallback = @ + 1]
                       ELSE [s1 EXCEPT !.failed = @ + 1]
    IN  [daily1 EXCEPT ![i].stats = s2]

\* the record with the score cut to a whole number
MessageRecordWholeScore(result, appointment, time) ==
    [time     |-> IsoFormat(time),
     type     |-> appointment.type,
     doctor   |-> appointment.doctor,
     score    |-> (result.evaluation.avg \div 1000) * 1000,
     scores   |-> result.evaluation.scores,
     feedback |-> result.evaluation.feedback,
     status   |-> result.status,
     message  |-> IF TextLen(result.message) > MaxMessageChars
                  THEN TextPrefix(result.message, MaxMessageChars) \o Ellipsis
                  ELSE result.message]

\* lines 162-175: the MessageRecord
MessageRecord(result, appointment, time) ==
    [time     |-> IsoFormat(time),
     type     |-> appointment.type,
     doctor   |-> appointment.doctor,
     score    |-> result.evaluation.avg,
     scores   |-> result.evaluation.scores,
     feedback |-> result.evaluation.feedback,
     status   |-> result.status,
     message  |-> IF TextLen(result.message) > MaxMessageChars
                  THEN TextPrefix(result.message, MaxMessageChars) \o Ellipsis
                  ELSE result.message]

\* messages[:k]
FirstK(messages, k) ==
    IF Len(messages) > k THEN SubSeq(messages, 1, k) ELSE messages

\* messages[-k:]
LastK(messages, k) ==
    IF Len(messages) > k
    THEN SubSeq(messages, Len(messages) - k + 1, Len(messages))
    ELSE messages

\* append without trimming
AppendUntrimmed(messages, record) == Append(messages, record)

\* the new record put first, the log cut to its first 50
InsertFirst(messages, record) ==
    LET inserted == <<record>> \o messages
    IN  IF Len(inserted) > MaxMessages THEN SubSeq(inserted, 1, MaxMessages)
        ELSE inserted

\* lines 166-179: append and keep only the last 50 messages
AppendMessage(messages, record) ==
    LET appended == Append(messages, record)
    IN  IF Len(appended) > MaxMessages THEN LastK(appended, MaxMessages)
        ELSE appended

\* the dashboard as it is between line 159 and line 166: the daily statistics
\* updated, the record not yet appended
RecordIntoDailyOnly(data, result, appointment, today, time) ==
    [data EXCEPT !.daily = UpdateDaily(data.daily, result, today)]

\* record_message_in_dashboard on a dashboard that has both keys, up to the
\* save: today is read at line 137, time at line 167
RecordInto(data, result, appointment, today, time) ==
    [data EXCEPT
       !.daily    = UpdateDaily(data.daily, result, today),
       !.messages = AppendMessage(data.messages,
                                  MessageRecord(result, appointment, time))]

(***************************************************************************)
(* Persistence: the JSON document as a sequence of tokens                  *)
(***************************************************************************)
OpenBrace == [tok |-> "{"]
CloseBrace == [tok |-> "}"]
KeyToken(name) == [tok |-> "key", name |-> name]

\* a dump that writes the message list only
JsonDumpMessagesOnly(data) ==
    <<[tok |-> "{"], [tok |-> "key", name |-> "messages"]>>
    \o [i \in 1..Len(data.messages) |->
           [tok |-> "item", val |-> data.messages[i]]]
    \o <<[tok |-> "}"]>>

\* json.dump(dashboard_data, file)
JsonDump(data) ==
    <<OpenBrace>>
    \o (IF data.has_messages
        THEN <<KeyToken("messages")>>
             \o [i \in 1..Len(data.messages) |->
                    [tok |-> "item", val |-> data.messages[i]]]
        ELSE <<>>)
    \o (IF data.has_daily
        THEN <<KeyToken("daily")>>
             \o [i \in 1..Len(data.daily) |->
                    [tok |-> "entry", key |-> data.daily[i].key,
                     val |-> data.daily[i].stats]]
        ELSE <<>>)
    \o <<CloseBrace>>

IsItem(token) == token.tok = "item"
IsEntry(token) == token.tok = "entry"

\* a complete document: an opening brace, a closing brace and nothing after
Decodable(tokens) ==
    /\ Len(tokens) >= 2
    /\ tokens[1] = OpenBrace
    /\ tokens[Len(tokens)] = CloseBrace
    /\ \A i \in 2..(Len(tokens) - 1) : tokens[i].tok \in {"key", "item", "entry"}

\* json.load(file) of a decodable document
JsonLoad(tokens) ==
    LET items   == SelectSeq(tokens, IsItem)
        entries == SelectSeq(tokens, IsEntry)
    IN  [has_messages |-> \E i \in 1..Len(tokens) : tokens[i] = KeyToken("messages"),
         has_daily    |-> \E i \in 1..Len(tokens) : tokens[i] = KeyToken("daily"),
         messages     |-> [i \in 1..Len(items) |-> items[i].val],
         daily        |-> [i \in 1..Len(entries) |->
                             [key |-> entries[i].key, stats |-> entries[i].val]]]

\* load_saved_data: f is the durable file [exists, tokens]
load_saved_data(f) ==
    IF f.exists /\ Decodable(f.tokens) THEN JsonLoad(f.tokens)
    ELSE EmptyDashboard

(***************************************************************************)
(* The analytics read API                                                  *)
(***************************************************************************)
RECURSIVE CountStatus(_, _)
CountStatus(messages, status) ==
    IF messages = <<>> THEN 0
    ELSE (IF Head(messages).status = status THEN 1 ELSE 0)
         + CountStatus(Tail(messages), status)

RECURSIVE SumScores(_)
SumScores(messages) ==
    IF messages = <<>> THEN 0
    ELSE Head(messages).score + SumScores(Tail(messages))

\* the list left in append order
NotReversed(messages) == messages

\* messages[::-1]
Reverse(messages) ==
    [i \in 1..Len(messages) |-> messages[Len(messages) + 1 - i]]

\* lines 246-270: one entry of the chart, for the day that is `date`
ChartEntry(daily, date) ==
    IF HasDay(daily, DateKey(date))
    THEN LET day_stats == DayStats(daily, DateKey(date))
         IN  [day       |-> DayLabel(date),
              sent      |-> day_stats.sent,
              fallback  |-> day_stats.fallback,
              failed    |-> day_stats.failed,
              avg_score |-> IF day_stats.count > 0
                            THEN PyRound(day_stats.total_score, day_stats.count, 100)
                            ELSE 0]
    ELSE [day |-> DayLabel(date), sent |-> 0, fallback |-> 0, failed |-> 0,
          avg_score |-> 0]

\* get_analytics on a dashboard that has both keys.  clock[i] is the value
\* of datetime.now() in the i-th round of the chart loop.
get_analytics(data, clock) ==
    LET messages       == data.messages
        total_messages == Len(messages)
        ai_approved    == CountStatus(messages, "sent_ai")
        used_fallback  == CountStatus(messages, "sent_fallback")
        failed         == CountStatus(messages, "failed")
        average_score  == IF total_messages > 0
                          THEN PyRound(SumScores(messages), total_messages, 10)
                          ELSE 0
        \* percent, in thousandths
        pass_rate      == IF total_messages > 0
                          THEN PyRound(ai_approved * 100000, total_messages, 100)
                          ELSE 0
    IN  [summary |-> [total         |-> total_messages,
                      sent_ai       |-> ai_approved,
                      sent_fallback |-> used_fallback,
                      failed        |-> failed,
                      avg_score     |-> average_score,
                      pass_rate     |-> pass_rate],
         chart   |-> [i \in 1..ChartDays |->
                         ChartEntry(data.daily,
                                    DayOf(clock[i]) - (ChartDays - i))],
         recent  |-> Reverse(LastK(messages, RecentCount))]

(***************************************************************************)
(* Inputs of the model                                                     *)
(***************************************************************************)
\* what the Generator may return: a 90-character message (the fallback text is
\* longer than the 100 characters the dashboard keeps)
GeneratorTexts == {<<Chunk("short greeting", 90)>>}

HttpError == [outcome |-> "error", is_json |-> FALSE,
              data |-> [candidates |-> FALSE, text |-> Plain(NotJson)]]
HttpNotJson == [outcome |-> "body", is_json |-> FALSE,
                data |-> [candidates |-> FALSE, text |-> Plain(NotJson)]]
HttpNoCandidates == [outcome |-> "body", is_json |-> TRUE,
                     data |-> [candidates |-> FALSE, text |-> Plain(NotJson)]]
HttpText(text) == [outcome |-> "body", is_json |-> TRUE,
                   data |-> [candidates |-> TRUE, text |-> text]]

\* what the judge may answer
JudgeResponses ==
    { HttpError, HttpNotJson, HttpNoCandidates,
      HttpText(Plain(IntScores(5, 5, 4, 5, 5))),
      HttpText(Fenced(IntScores(2, 3, 2, 3, 2))) }

(***************************************************************************)
(* The pipeline's last step and the states the durable file starts in      *)
(***************************************************************************)
\* the status left as the decision set it
StatusKeptAfterSend(status, send_successful) == status

\* ReminderPipeline.send_reminder, lines 418-419
StatusAfterSend(status, send_successful) ==
    IF ~send_successful THEN "failed" ELSE status

\* the time of the i-th of n earlier records: they reach back several days
SavedTime(n, i) == StartNow - 1 - ((n - i) \div 3)

\* the result of the i-th earlier pipeline run
SavedResult(n, i) ==
    LET appointment == MakeAppointment(SavedTime(n, i))
        ai_message  == <<Chunk("short greeting", 90)>>
        evaluation  == _parse_gemini_response(DefaultEvaluator,
                         IF i % 3 = 0 THEN HttpText(Plain(IntScores(5, 5, 4, 5, 5))).data
                         ELSE IF i % 3 = 1 THEN HttpText(Fenced(IntScores(2, 3, 2, 3, 2))).data
                         ELSE HttpNoCandidates.data)
        decision    == _decide_what_to_send(ai_message, evaluation, appointment)
    IN  ResultDict(decision.message, evaluation,
                   StatusAfterSend(decision.status, i % 4 # 0))

\* the dashboard after the first i of n earlier records, from empty (the
\* dashboard before the i-th record is bound as a value, computed once)
RECURSIVE SavedState(_, _)
SavedState(n, i) ==
    IF i = 0 THEN EmptyDashboard
    ELSE CHOOSE after \in
             { RecordInto(data, SavedResult(n, i), APPOINTMENT_DETAILS,
                          DayOf(SavedTime(n, i)), SavedTime(n, i))
               : data \in {SavedState(n, i - 1)} } : TRUE

\* numbers of records made by earlier processes
SavedRuns == {50}

NoFile == [exists |-> FALSE, tokens |-> <<>>]
FileOf(tokens) == [exists |-> TRUE, tokens |-> tokens]

\* the durable file when the process starts: absent, cut short, decodable
\* without the expected keys, or written by an earlier process
InitialFiles ==
    { NoFile,
      FileOf(<<OpenBrace, KeyToken("messages")>>),
      FileOf(<<OpenBrace, CloseBrace>>),
      FileOf(<<OpenBrace, KeyToken("daily"), CloseBrace>>) }
    \cup { FileOf(JsonDump(SavedState(n, n))) : n \in SavedRuns }

(***************************************************************************)
(* State                                                                   *)
(***************************************************************************)
VARIABLES
    now,             \* the wall clock, in ticks
    file,            \* the durable file DATA_FILE
    dashboard_data,  \* app.py: dashboard_data
    pc,              \* the await in which the scheduler task is suspended
    run,             \* the locals of the scheduler's current iteration
    runs,            \* pipeline runs that got as far as the evaluator so far
    last_save,       \* outcome of the last save_data_to_file of this process
    response,        \* the answer of the read API being delivered
    faults,          \* failed writes and restarts so far
    evaluator,       \* the GeminiMessageEvaluator object of the pipeline
    lifespan         \* where lifespan() is: serving (at its yield) or closing

vars == <<now, file, dashboard_data, pc, run, runs, last_save, response, faults,
          evaluator, lifespan>>

NoEvaluation ==
    [scores |-> [completeness |-> PyNone, tone |-> PyNone, clarity |-> PyNone,
                 length |-> PyNone, professionalism |-> PyNone, feedback |-> ""],
     average_score |-> 0,
     passed_quality_check |-> FALSE]

\* the locals of an iteration that has not begun: stages lists the stages of
\* the pipeline run in the order they were entered, sender_calls the texts
\* given to sender.send_message, error is what was raised in the iteration
NoRun ==
    [appointment     |-> MakeAppointment(0),
     stages          |-> <<>>,
     ai_message      |-> <<>>,
     judge           |-> HttpError,
     evaluation      |-> NoEvaluation,
     final_message   |-> <<>>,
     decided         |-> "none",
     send_successful |-> FALSE,
     sender_calls    |-> <<>>,
     record_calls    |-> 0,
     result          |-> ResultDict(<<>>, NoEvaluation, "none"),
     error           |-> "none"]

NoResponse == [kind |-> "none"]

\* the awaits of the scheduler task: the warm-up sleep, the writer's and the
\* evaluator's HTTP exchange, the interval sleep
SuspensionPoints == {"warmup", "generating", "evaluating", "sleeping"}

Init ==
    /\ now = StartNow
    /\ file \in InitialFiles
    /\ dashboard_data = load_saved_data(file)
    /\ pc = "warmup"
    /\ run = NoRun
    /\ runs = 0
    /\ last_save = "none"
    /\ response = NoResponse
    /\ faults = 0
    /\ evaluator = DefaultEvaluator
    /\ lifespan = "serving"

(***************************************************************************)
(* Recording and saving                                                    *)
(***************************************************************************)
\* how save_data_to_file can end: the document is written; open() raises and
\* the file is untouched; open() has emptied the file and a write raises
\* before the end of the document
SaveOutcomes == {"ok", "open_failed", "write_failed"}

\* save_data_to_file without its try: the error of open() or of a write
\* leaves the function
SaveWithoutExcept(f, data, outcome) ==
    LET doc == JsonDump(data)
    IN  [file   |-> IF outcome = "ok" THEN [exists |-> TRUE, tokens |-> doc]
                    ELSE IF outcome = "open_failed" THEN f
                    ELSE [exists |-> TRUE, tokens |-> SubSeq(doc, 1, Len(doc) - 1)],
         raised |-> outcome # "ok"]

\* a save that returns without having written
SaveNothingWritten(f, data, outcome) == [file |-> f, raised |-> FALSE]

\* save_data_to_file: the file it leaves; its except branch prints a warning,
\* so nothing is raised
save_data_to_file(f, data, outcome) ==
    LET doc == JsonDump(data)
    IN  [file   |-> IF outcome = "ok" THEN FileOf(doc)
                    ELSE IF outcome = "open_failed" THEN f
                    ELSE FileOf(SubSeq(doc, 1, Len(doc) - 1)),
         raised |-> FALSE]

\* record_message_in_dashboard(result, APPOINTMENT_DETAILS): what it does to
\* the clock, the dashboard and the file, and whether it raises.  The clock
\* may move by d between the read of line 137 and that of line 167.
record_message_in_dashboard(result, d, outcome) ==
    IF ~dashboard_data.has_daily
    THEN \* KeyError at line 140
         [now |-> now, data |-> dashboard_data, file |-> file,
          last_save |-> last_save, raised |-> TRUE, saved |-> "none"]
    ELSE IF ~dashboard_data.has_messages
    THEN \* KeyError at line 166, after the daily statistics were updated
         [now |-> now,
          data |-> [dashboard_data EXCEPT
                      !.daily = UpdateDaily(@, result, DayOf(now))],
          file |-> file, last_save |-> last_save, raised |-> TRUE,
          saved |-> "none"]
    ELSE CHOOSE after \in
           { [now |-> now + d, data |-> data,
              file |-> save.file,
              last_save |-> IF outcome = "ok" THEN "ok" ELSE "failed",
              raised |-> save.raised,
              saved |-> IF outcome = "ok" THEN "ok" ELSE "failed"]
             : data \in {RecordInto(dashboard_data, result, APPOINTMENT_DETAILS,
                                    DayOf(now), now + d)},
               save \in {save_data_to_file(
                            file,
                            RecordInto(dashboard_data, result,
                                       APPOINTMENT_DETAILS, DayOf(now), now + d),
                            outcome)} } : TRUE

(***************************************************************************)
(* The scheduler and the pipeline                                          *)
(* Each action is the code the scheduler task runs between two awaits.     *)
(* pc = "stopped": the task has ended, an exception having left            *)
(* auto_send_reminders.                                                    *)
(***************************************************************************)
\* a boundary that catches the errors of the HTTP exchange only
CaughtHttpOnly(error) == error = "HTTPError"

\* a boundary written as a bare except
CaughtBareExcept(error) == TRUE

\* line 123, except Exception: asyncio.CancelledError derives from
\* BaseException, every other error raised in the iteration from Exception
CaughtByIteration(error) == error # "CancelledError"

\* the interval sleep placed inside the try: a caught error skips it and the
\* loop goes straight to the next run
RaisedRetriesAtOnce(error) ==
    IF CaughtByIteration(error) THEN "generating" ELSE "stopped"

\* where the task is after `error` was raised inside the try of lines 105-121
RaisedInIteration(error) ==
    IF CaughtByIteration(error) THEN "sleeping" ELSE "stopped"

\* auto_send_reminders lines 104-118 and send_reminder up to the await of
\* the writer
BeginIteration ==
    /\ lifespan = "serving"
    /\ run' = [NoRun EXCEPT !.appointment = MakeAppointment(now),
                            !.stages = <<"generating">>]
    /\ pc' = "generating"
    /\ response' = NoResponse
    /\ UNCHANGED <<now, file, dashboard_data, runs, last_save, faults,
                   evaluator, lifespan>>

\* the warm-up sleep of 30 seconds is over
FirstIteration == pc = "warmup" /\ BeginIteration

\* an iteration begun without waiting for the run in flight
NextIterationWithoutAwait == pc \in {"sleeping", "evaluating"} /\ BeginIteration

\* the sleep of REMINDER_INTERVAL_SECONDS is over
NextIteration == pc = "sleeping" /\ BeginIteration

\* a pipeline that sends the draft before it awaits the evaluator
WriterReturnsAndSends ==
    /\ lifespan = "serving"
    /\ pc = "generating"
    /\ runs < MaxRuns
    /\ runs' = runs + 1
    /\ \E text \in GeneratorTexts :
          run' = [run EXCEPT !.ai_message = text,
                             !.sender_calls = Append(@, text),
                             !.stages = Append(@, "evaluating")]
    /\ pc' = "evaluating"
    /\ response' = NoResponse
    /\ UNCHANGED <<now, file, dashboard_data, last_save, faults,
                   evaluator, lifespan>>

\* writer.write_message returns; send_reminder goes on to the await of the
\* evaluator
WriterReturns ==
    /\ lifespan = "serving"
    /\ pc = "generating"
    /\ runs < MaxRuns
    /\ runs' = runs + 1
    /\ \E text \in GeneratorTexts :
          run' = [run EXCEPT !.ai_message = text,
                             !.stages = Append(@, "evaluating")]
    /\ pc' = "evaluating"
    /\ response' = NoResponse
    /\ UNCHANGED <<now, file, dashboard_data, last_save, faults,
                   evaluator, lifespan>>

\* a pipeline that answers the writer's error by sending the fallback text
WriterRaisesSendsFallback ==
    /\ lifespan = "serving"
    /\ pc = "generating"
    /\ run' = [run EXCEPT
                 !.error = "writer",
                 !.sender_calls =
                    <<SAFE_FALLBACK_TEMPLATE(run.appointment.patient_name,
                                             run.appointment.appointment_type,
                                             run.appointment.doctor_name,
                                             get_formatted_time(run.appointment),
                                             run.appointment.clinic_location)>>]
    /\ pc' = "sleeping"
    /\ response' = NoResponse
    /\ UNCHANGED <<now, file, dashboard_data, runs, last_save, faults,
                   evaluator, lifespan>>

\* writer.write_message raises (the HTTP exchange fails, or the body is not
\* the expected JSON); send_reminder has no try, the scheduler's except
\* branch logs the error and the task goes to sleep
WriterRaises ==
    /\ lifespan = "serving"
    /\ pc = "generating"
    /\ run' = [run EXCEPT !.error = "writer"]
    /\ \E error \in {"HTTPError", "KeyError"} : pc' = RaisedInIteration(error)
    /\ response' = NoResponse
    /\ UNCHANGED <<now, file, dashboard_data, runs, last_save, faults,
                   evaluator, lifespan>>

\* a pipeline that calls the sender with the generator's text before it decides
FinishPipelineSendsDraft(r, http, evaluation, ok) ==
    LET d == _decide_what_to_send(r.ai_message, evaluation, r.appointment)
    IN  [r EXCEPT
           !.judge           = http,
           !.evaluation      = evaluation,
           !.final_message   = d.message,
           !.decided         = d.status,
           !.send_successful = ok,
           !.sender_calls    = Append(@, r.ai_message),
           !.stages          = @ \o <<"sending", "deciding", "done">>,
           !.result          = ResultDict(d.message, evaluation,
                                          StatusAfterSend(d.status, ok))]

\* what client.messages.create does: it returns the created message or raises
TwilioOutcomes == {"created", "TwilioRestException"}

SendWithoutExcept(twilio) ==
    [raised |-> twilio # "created", value |-> twilio = "created"]

\* TwilioWhatsAppSender.send_message, lines 344-356: True when the message was
\* created, False when the client raised
send_message(twilio) ==
    [raised |-> FALSE, value |-> twilio = "created"]

\* the locals of send_reminder after lines 407-427, given the evaluation and
\* the sender's answer
FinishPipeline(r, http, evaluation, ok) ==
    LET d == _decide_what_to_send(r.ai_message, evaluation, r.appointment)
    IN  [r EXCEPT
           !.judge           = http,
           !.evaluation      = evaluation,
           !.final_message   = d.message,
           !.decided         = d.status,
           !.send_successful = ok,
           !.sender_calls    = Append(@, d.message),
           !.stages          = @ \o <<"deciding", "sending", "done">>,
           !.result          = ResultDict(d.message, evaluation,
                                          StatusAfterSend(d.status, ok))]

\* the HTTP exchange of evaluator.evaluate_message is over.  If it raises,
\* the scheduler's except branch logs it.  Otherwise the task runs, without
\* another await, the decision, the sender (which answers True or False), the
\* return of the result and record_message_in_dashboard (line 121), and goes
\* to sleep.
EvaluatorResponds ==
    /\ lifespan = "serving"
    /\ pc = "evaluating"
    /\ response' = NoResponse
    /\ UNCHANGED <<runs, evaluator, lifespan>>
    /\ \E http \in JudgeResponses :
       \E out \in {evaluate_message(evaluator, http)} :
          IF out.raised
          THEN /\ run' = [run EXCEPT !.judge = http, !.error = "evaluator"]
               /\ pc' = RaisedInIteration(IF http.outcome = "error"
                                          THEN "HTTPError" ELSE "JSONDecodeError")
               /\ UNCHANGED <<now, file, dashboard_data, last_save, faults>>
          ELSE \E twilio \in TwilioOutcomes, d \in 0..1, outcome \in SaveOutcomes :
               \E sent \in {send_message(twilio)} :
               \E r \in {FinishPipeline(run, http, out.result, sent.value)} :
               IF sent.raised
               THEN \* the sender's exception leaves send_reminder at line 416
                    /\ run' = [r EXCEPT !.stages = SubSeq(@, 1, Len(@) - 1),
                                        !.result = run.result,
                                        !.error  = "sender"]
                    /\ pc' = RaisedInIteration("TwilioRestException")
                    /\ UNCHANGED <<now, file, dashboard_data, last_save, faults>>
               ELSE
               \E rec \in {record_message_in_dashboard(r.result, d, outcome)} :
                  /\ rec.now <= StartNow + MaxTicks
                  /\ rec.saved = "failed" => faults < MaxFaults
                  /\ faults' = IF rec.saved = "failed" THEN faults + 1
                               ELSE faults
                  /\ run' = [r EXCEPT !.record_calls = @ + 1,
                                      !.error = IF rec.raised THEN "record"
                                                ELSE "none"]
                  /\ pc' = IF rec.raised THEN RaisedInIteration("KeyError")
                           ELSE "sleeping"
                  /\ now' = rec.now
                  /\ dashboard_data' = rec.data
                  /\ file' = rec.file
                  /\ last_save' = rec.last_save

\* lifespan, lines 204-207: the server shuts down.  scheduler_task.cancel()
\* asks for the cancellation and returns; the task stays suspended in its
\* await until the event loop runs it again; lifespan goes on, without an
\* await of the task, into reminder_system.close(), which begins to close the
\* HTTP client of the writer.  Queries are no longer served.
Shutdown ==
    /\ lifespan = "serving"
    /\ pc \in SuspensionPoints
    /\ lifespan' = "closing"
    /\ response' = NoResponse
    /\ UNCHANGED <<now, file, dashboard_data, pc, run, runs, last_save, faults,
                   evaluator>>

\* the event loop runs the cancelled task: CancelledError is raised in the
\* await in which it is suspended, inside the try for the awaits of the
\* writer and the evaluator, outside it for the two sleeps.  This is the next
\* step of the task whatever its await has produced meanwhile.
Cancel ==
    /\ lifespan = "closing"
    /\ pc \in SuspensionPoints
    /\ pc' = IF pc \in {"generating", "evaluating"}
             THEN RaisedInIteration("CancelledError")
             ELSE "stopped"
    /\ run' = [run EXCEPT !.error = "cancelled"]
    /\ response' = NoResponse
    /\ UNCHANGED <<now, file, dashboard_data, runs, last_save, faults,
                   evaluator, lifespan>>

(***************************************************************************)
(* The read API, the clock and restarts                                    *)
(***************************************************************************)
\* a query that reverses the log in place to build the recent feed
GetAnalyticsReversesLog ==
    /\ lifespan = "serving"
    /\ pc \in SuspensionPoints
    /\ response = NoResponse
    /\ IF ~dashboard_data.has_messages \/ ~dashboard_data.has_daily
       THEN /\ response' = [kind |-> "error"]
            /\ UNCHANGED <<now, dashboard_data>>
       ELSE \E k \in {1, ChartDays} :
            /\ k < ChartDays => now + 1 <= StartNow + MaxTicks
            /\ LET clock == [i \in 1..ChartDays |-> IF i > k THEN now + 1 ELSE now]
               IN  /\ response' = [kind  |-> "ok",
                                   clock |-> clock,
                                   body  |-> get_analytics(dashboard_data, clock)]
                   /\ now' = clock[ChartDays]
            /\ dashboard_data' = [dashboard_data EXCEPT !.messages = Reverse(@)]
    /\ UNCHANGED <<file, pc, run, runs, last_save, faults, evaluator, lifespan>>

\* GET /api/analytics, served while the scheduler task is suspended.  The
\* chart loop reads the clock once per round; the clock may move after round k.
\* A query is taken up when the previous answer has gone out (a query changes
\* nothing but the clock, so this leaves out no state).
GetAnalytics ==
    /\ lifespan = "serving"
    /\ pc \in SuspensionPoints
    /\ response = NoResponse
    /\ IF ~dashboard_data.has_messages \/ ~dashboard_data.has_daily
       THEN \* KeyError at line 226 or line 250
            /\ response' = [kind |-> "error"]
            /\ UNCHANGED now
       ELSE \E k \in {1, ChartDays} :
            /\ k < ChartDays => now + 1 <= StartNow + MaxTicks
            /\ LET clock == [i \in 1..ChartDays |-> IF i > k THEN now + 1 ELSE now]
               IN  /\ response' = [kind  |-> "ok",
                                   clock |-> clock,
                                   body  |-> get_analytics(dashboard_data, clock)]
                   /\ now' = clock[ChartDays]
    /\ UNCHANGED <<file, dashboard_data, pc, run, runs, last_save, faults,
                   evaluator, lifespan>>

\* time passes; the program reads the clock when an iteration begins, when it
\* records and when it answers a query, so it is enough to let the clock move
\* while the scheduler task is suspended and inside those two handlers
Tick ==
    /\ lifespan = "serving"
    /\ pc \in SuspensionPoints
    /\ now < StartNow + MaxTicks
    /\ now' = now + 1
    /\ response' = NoResponse
    /\ UNCHANGED <<file, dashboard_data, pc, run, runs, last_save, faults,
                   evaluator, lifespan>>

\* the process is stopped and started again: module initialisation, line 84
Restart ==
    /\ faults < MaxFaults
    /\ faults' = faults + 1
    /\ dashboard_data' = load_saved_data(file)
    /\ pc' = "warmup"
    /\ run' = NoRun
    /\ last_save' = "none"
    /\ response' = NoResponse
    /\ lifespan' = "serving"
    /\ UNCHANGED <<now, file, runs, evaluator>>

\* the steps of the scheduler task that is not cancelled, and of the clock
NextScheduler ==
    \/ FirstIteration
    \/ NextIteration
    \/ WriterReturns
    \/ WriterRaises
    \/ EvaluatorResponds
    \/ Tick

Next ==
    \/ NextScheduler
    \/ GetAnalytics
    \/ Shutdown
    \/ Cancel
    \/ Restart

Spec == Init /\ [][Next]_vars

(***************************************************************************)
(* The evaluator on its own: every answer of five whole sub-scores, under  *)
(* every threshold of Thresholds                                           *)
(***************************************************************************)
\* thresholds the evaluator may be built with (thousandths)
Thresholds == {3000, 4000, 4100, 4200, 5000}

\* the pipeline run is suspended in the await of the evaluator
InitScores ==
    /\ now = StartNow
    /\ file = NoFile
    /\ dashboard_data = load_saved_data(file)
    /\ pc = "evaluating"
    /\ run = [NoRun EXCEPT !.appointment = MakeAppointment(now),
                           !.stages = <<"generating", "evaluating">>,
                           !.ai_message = <<Chunk("short greeting", 90)>>]
    /\ runs = 1
    /\ last_save = "none"
    /\ response = NoResponse
    /\ faults = 0
    /\ evaluator \in {[minimum_passing_score |-> th] : th \in Thresholds}
    /\ lifespan = "serving"

\* evaluate_message returns the parsed answer of the judge: the run is at
\* line 411, before the decision
ParseScores ==
    /\ pc = "evaluating"
    /\ \E c, t, cl, l, p \in 1..MaxScore :
       \E http \in {HttpText(Plain(IntScores(c, t, cl, l, p)))} :
          run' = [run EXCEPT !.judge = http,
                             !.evaluation = evaluate_message(evaluator, http).result]
    /\ pc' = "deciding"
    /\ UNCHANGED <<now, file, dashboard_data, runs, last_save, response, faults,
                   evaluator, lifespan>>

SpecScores == InitScores /\ [][ParseScores]_vars

\* the timers of the two sleeps expire, and every call of the writer and of
\* the evaluator returns or raises
Fairness ==
    /\ WF_vars(FirstIteration)
    /\ WF_vars(NextIteration)
    /\ WF_vars(WriterReturns \/ WriterRaises)
    /\ WF_vars(EvaluatorResponds)

\* the scheduler task of one process, from its start, without a shutdown
LiveSpec == Init /\ [][NextScheduler]_vars /\ Fairness

(***************************************************************************)
(* Properties                                                              *)
(***************************************************************************)
\* both keys of dashboard_data are present
WellFormed == dashboard_data.has_messages /\ dashboard_data.has_daily

\* the pipeline run of the current iteration has returned its ReminderResult
Returned == run.stages # <<>> /\ run.stages[Len(run.stages)] = "done"

\* the fallback template filled with the fields of the run's appointment
ExpectedFallback ==
    SAFE_FALLBACK_TEMPLATE(run.appointment.patient_name,
                           run.appointment.appointment_type,
                           run.appointment.doctor_name,
                           get_formatted_time(run.appointment),
                           run.appointment.clinic_location)

\* C1: in a run whose sender reported success, a passing evaluation gives the
\* generator's text with status sent_ai, a failing one gives the filled
\* fallback template with status sent_fallback
C1_DecisionPolicy ==
    (Returned /\ run.send_successful) =>
        IF run.evaluation.passed_quality_check
        THEN /\ run.result.message = run.ai_message
             /\ run.result.status = "sent_ai"
        ELSE /\ run.result.message = ExpectedFallback
             /\ run.result.status = "sent_fallback"

C1_Witness ==
    /\ Returned
    /\ run.send_successful
    /\ ~run.evaluation.passed_quality_check
    /\ run.result.status = "sent_fallback"
    /\ run.result.message # run.ai_message

\* C2: when the sender reports failure the result has status failed, whatever
\* the decision chose, and its text is the text the decision chose
C2_SenderFailure ==
    (Returned /\ ~run.send_successful) =>
        /\ run.result.status = "failed"
        /\ run.result.message = run.final_message
        /\ run.final_message =
             (IF run.decided = "sent_ai" THEN run.ai_message ELSE ExpectedFallback)

C2_Witness ==
    /\ Returned
    /\ ~run.send_successful
    /\ run.decided = "sent_fallback"
    /\ run.result.status = "failed"

\* C3: the recent-message log never holds more than 50 records
C3_LogBounded ==
    dashboard_data.has_messages => Len(dashboard_data.messages) <= MaxMessages

C3_Witness ==
    /\ WellFormed
    /\ Returned
    /\ run.error = "none"
    /\ Len(dashboard_data.messages) = MaxMessages

\* a step in which record_message_in_dashboard ran to its end
RecordStep ==
    /\ pc = "evaluating"
    /\ pc' = "sleeping"
    /\ run'.stages[Len(run'.stages)] = "done"
    /\ run'.error = "none"

\* C4: a record on a log of 50 leaves the old log without its first entry,
\* followed by the new record
C4_EvictsOldest ==
    [][(RecordStep /\ Len(dashboard_data.messages) = MaxMessages) =>
         dashboard_data'.messages =
             Append(Tail(dashboard_data.messages),
                    MessageRecord(run'.result, APPOINTMENT_DETAILS, now'))]_vars

\* the log loaded with 50 records has lost its first one to a new record
C4_Witness ==
    /\ Returned
    /\ run.error = "none"
    /\ faults = 0
    /\ Len(dashboard_data.messages) = MaxMessages
    /\ dashboard_data.messages[1] =
          MessageRecord(SavedResult(50, 2), APPOINTMENT_DETAILS, SavedTime(50, 2))
    /\ dashboard_data.messages[MaxMessages].status = run.result.status

\* C5: for every date key, count is the sum of the three status counters
C5_DailyCountIsSum ==
    \A i \in 1..Len(dashboard_data.daily) :
        LET s == dashboard_data.daily[i].stats
        IN  s.count = s.sent + s.fallback + s.failed

\* a record has created the DailyStats of a new day
C5_Witness ==
    /\ Returned
    /\ run.error = "none"
    /\ HasDay(dashboard_data.daily, DateKey(StartDay + 1))
    /\ DayStats(dashboard_data.daily, DateKey(StartDay + 1)).count = 1
    /\ DayStats(dashboard_data.daily, DateKey(StartDay + 1)).failed = 1

RECURSIVE SumField(_, _)
SumField(daily, field) ==
    IF daily = <<>> THEN 0
    ELSE Head(daily).stats[field] + SumField(Tail(daily), field)

\* C6: the summary counts all recorded messages: its total and its counts by
\* status are those of the daily statistics summed over all days, and its
\* average is over all of them
C6_SummaryCountsAll ==
    (WellFormed /\ response.kind = "ok") =>
        LET summary == response.body.summary
            daily   == dashboard_data.daily
        IN  /\ summary.total = SumField(daily, "count")
            /\ summary.sent_ai = SumField(daily, "sent")
            /\ summary.sent_fallback = SumField(daily, "fallback")
            /\ summary.failed = SumField(daily, "failed")
            /\ summary.avg_score =
                 (IF SumField(daily, "count") > 0
                  THEN PyRound(SumField(daily, "total_score"),
                               SumField(daily, "count"), 10)
                  ELSE 0)

\* the chart the claim describes, for a query made on the day `today`
ExpectedChart(today) ==
    [i \in 1..ChartDays |->
        LET date == today - (ChartDays - i)
            key  == DateKey(date)
        IN  IF HasDay(dashboard_data.daily, key)
            THEN LET s == DayStats(dashboard_data.daily, key)
                 IN  [day |-> DayLabel(date), sent |-> s.sent,
                      fallback |-> s.fallback, failed |-> s.failed]
            ELSE [day |-> DayLabel(date), sent |-> 0, fallback |-> 0,
                  failed |-> 0]]

ChartCounters(chart) ==
    [i \in 1..Len(chart) |->
        [day |-> chart[i].day, sent |-> chart[i].sent,
         fallback |-> chart[i].fallback, failed |-> chart[i].failed]]

\* C7: the chart has 7 entries, one per calendar day from 6 days ago to today
\* (the day the query began or the day it ended), oldest first, with the day's
\* counters, and zeros for a day without a record
C7_ChartSevenDays ==
    (WellFormed /\ response.kind = "ok") =>
        /\ Len(response.body.chart) = ChartDays
        /\ \E today \in {DayOf(response.clock[1]), DayOf(response.clock[ChartDays])} :
              /\ ChartCounters(response.body.chart) = ExpectedChart(today)
              /\ \A i \in 1..ChartDays :
                    ~HasDay(dashboard_data.daily, DateKey(today - (ChartDays - i)))
                        => response.body.chart[i].avg_score = 0

\* C8: the recent list holds the min(10, log length) last records, newest first
C8_RecentNewestFirst ==
    (WellFormed /\ response.kind = "ok") =>
        LET recent   == response.body.recent
            messages == dashboard_data.messages
            n        == IF Len(messages) < RecentCount THEN Len(messages)
                        ELSE RecentCount
        IN  /\ Len(recent) = n
            /\ \A i \in 1..n : recent[i] = messages[Len(messages) + 1 - i]

C8_Witness ==
    /\ WellFormed
    /\ response.kind = "ok"
    /\ Returned
    /\ run.error = "none"
    /\ Len(dashboard_data.messages) > RecentCount
    /\ Len(response.body.recent) = RecentCount
    /\ response.body.recent[1].status = run.result.status
    /\ response.body.recent[1] # response.body.recent[RecentCount]

\* C9: a restart after a successful save loads an equal daily map and an
\* equal message log
C9_SaveLoadRoundTrip ==
    [][(Restart /\ last_save = "ok") => dashboard_data' = dashboard_data]_vars

\* the process was restarted after its first record was saved, and has the
\* record and its day
C9_Witness ==
    /\ pc = "warmup"
    /\ faults = 1
    /\ runs = 1
    /\ last_save = "none"
    /\ Len(dashboard_data.messages) = 1
    /\ Len(dashboard_data.daily) = 1
    /\ dashboard_data.daily[1].stats.count = 1

\* the judge's response decodes into the five numeric fields
DecodesToFiveNumbers(http) ==
    /\ http.is_json
    /\ http.data.candidates
    /\ \E i \in 1..Len(http.data.text) :
          LET payload == http.data.text[i].payload
          IN  /\ payload.kind = "object"
              /\ ScoreKeys \subseteq payload.has
              /\ \A k \in ScoreKeys : payload.fields[k].t = "number"

\* the evaluator has been given the judge's response in this iteration
JudgeAnswered ==
    /\ pc = "sleeping"
    /\ Len(run.stages) >= 2
    /\ run.judge.outcome = "body"

\* C10: given a response that does not decode into the five numeric fields
\* the evaluator raises nothing and returns zero sub-scores, average 0 and
\* passed_quality_check true, and the run goes on to decide and send
C10_UnparseableFailsOpen ==
    (JudgeAnswered /\ ~DecodesToFiveNumbers(run.judge)) =>
        /\ run.error # "evaluator"
        /\ run.evaluation = ParseErrorResult
        /\ Returned

\* the sum of the five sub-scores the judge gave, in thousandths
JudgeSum ==
    LET f == run.judge.data.text[1].payload.fields
    IN  f.completeness.v + f.tone.v + f.clarity.v + f.length.v + f.professionalism.v

\* C11: for five sub-scores in 1..5 and any threshold, the parsed evaluation
\* carries the sub-scores, its average is their sum divided by 5, and it
\* passes exactly when the average is at least the threshold (with the
\* threshold 4.0: exactly when the sum is at least 20)
C11_AverageAndThreshold ==
    pc = "deciding" =>
        LET e == run.evaluation
            f == run.judge.data.text[1].payload.fields
        IN  /\ \A k \in ScoreKeys : e.scores[k] = f[k]
            /\ e.average_score * 5 = JudgeSum
            /\ e.passed_quality_check
                  = (e.average_score >= evaluator.minimum_passing_score)
            /\ evaluator.minimum_passing_score = minimum_quality_score
                  => (e.passed_quality_check <=> JudgeSum >= 20000)

\* an average equal to the threshold 4.2 passes
C11_Witness ==
    /\ pc = "deciding"
    /\ evaluator.minimum_passing_score = 4200
    /\ run.evaluation.average_score = 4200
    /\ JudgeSum = 21000
    /\ run.evaluation.passed_quality_check

\* C12: without a shutdown, and with every sleep ending and every call of the
\* writer and the evaluator returning or raising, the scheduler begins a
\* pipeline run again and again, whatever the earlier iterations ended in
C12_StartsRunsForever == []<><<FirstIteration \/ NextIteration>>_vars

\* a run begins after an iteration whose record could not be saved
C12_Witness ==
    /\ pc = "generating"
    /\ run.stages = <<"generating">>
    /\ runs >= 1
    /\ last_save = "failed"

\* C13: a step of an iteration whose pipeline run has not returned leaves the
\* daily statistics, the log and the durable file as they were; when the
\* writer or the evaluator raised, the run has no ReminderResult, the sender
\* was not called and the scheduler, having caught the error, sleeps
C13_RaisedRunLeavesNoTrace ==
    [][(pc' # "warmup" /\ run' # run /\ ~Returned')
         => /\ UNCHANGED <<dashboard_data, file>>
            /\ (run'.error \in {"writer", "evaluator"}
                  => /\ run'.result = NoRun.result
                     /\ run'.sender_calls = <<>>
                     /\ run'.final_message = <<>>
                     /\ pc' = "sleeping")]_vars

\* the evaluator raised in an iteration of a process that has 50 records
C13_Witness ==
    /\ run.error = "evaluator"
    /\ run.stages = <<"generating", "evaluating">>
    /\ pc = "sleeping"
    /\ WellFormed
    /\ Len(dashboard_data.messages) = MaxMessages

\* the iteration has ended in a failed pipeline run
FailedIteration ==
    /\ pc = "sleeping"
    /\ \/ run.error \in {"writer", "evaluator"}
       \/ Returned /\ ~run.send_successful

\* the failed counter of a day, 0 for a day without DailyStats
FailedOn(data, day) ==
    IF data.has_daily /\ HasDay(data.daily, DateKey(day))
    THEN DayStats(data.daily, DateKey(day)).failed
    ELSE 0

\* C14: the step that ends an iteration in a failed run (writer error,
\* evaluator error or delivery failure) appends one record with status failed
\* and adds 1 to the day's failed counter, and a query answered after it gets
\* a normal response
C14_FailedRunIsRecorded ==
    [][/\ (pc \in {"generating", "evaluating"} /\ FailedIteration')
            => /\ dashboard_data'.has_messages
               /\ dashboard_data.has_messages
               /\ dashboard_data'.messages # dashboard_data.messages
               /\ dashboard_data'.messages[Len(dashboard_data'.messages)].status
                     = "failed"
               /\ FailedOn(dashboard_data', DayOf(now))
                     = FailedOn(dashboard_data, DayOf(now)) + 1
       /\ (FailedIteration /\ response = NoResponse /\ response' # NoResponse)
            => response'.kind = "ok"]_vars

\* the last record of the log is the one of the run that has returned
LastRunRecorded ==
    /\ WellFormed
    /\ dashboard_data.messages # <<>>
    /\ LET last == dashboard_data.messages[Len(dashboard_data.messages)]
       IN  /\ last.status = run.result.status
           /\ last.score = run.result.evaluation.avg

\* C15: a pipeline run begins only from the warm-up sleep of a task that has
\* run nothing yet, or from the interval sleep after a run that has returned
\* and been recorded or an iteration that raised; never while a run is in
\* flight
C15_OneRunAtATime ==
    [][(pc' = "generating" /\ pc # "generating")
         => /\ pc \in {"warmup", "sleeping"}
            /\ pc = "warmup" => run = NoRun
            /\ pc = "sleeping"
                 => \/ run.error # "none"
                    \/ Returned /\ LastRunRecorded
            /\ run'.stages = <<"generating">>]_vars

\* a second run has begun after a run that was recorded and saved
C15_Witness ==
    /\ pc = "generating"
    /\ run.stages = <<"generating">>
    /\ runs >= 1
    /\ last_save = "ok"
    /\ faults = 0

\* C16: the cancellation ends the task at the await it is suspended in,
\* without a stage, a sender call, a record or a save being added; a task
\* that has ended does nothing more in this process
C16_CancellationStops ==
    [][/\ (run'.error = "cancelled" /\ run.error # "cancelled")
            => /\ pc' = "stopped"
               /\ run'.stages = run.stages
               /\ run'.sender_calls = run.sender_calls
               /\ UNCHANGED <<dashboard_data, file, runs>>
       /\ (pc = "stopped" /\ pc' # "warmup")
            => UNCHANGED <<pc, run, runs, dashboard_data, file>>]_vars

\* the task was cancelled in the await of the evaluator
C16_Witness ==
    /\ pc = "stopped"
    /\ run.error = "cancelled"
    /\ run.stages = <<"generating", "evaluating">>
    /\ run.sender_calls = <<>>

\* the stages of a pipeline run, in the order of send_reminder
StageOrder == <<"generating", "evaluating", "deciding", "sending", "done">>

\* C17: the stages a run has entered are the first stages of the order
\* generating, evaluating, deciding, sending, done, each once; the sender is
\* called at most once, after the decision, with the text the decision chose
C17_StagesInOrder ==
    /\ Len(run.stages) <= Len(StageOrder)
    /\ run.stages = SubSeq(StageOrder, 1, Len(run.stages))
    /\ Len(run.sender_calls) <= 1
    /\ run.sender_calls # <<>>
         => /\ Len(run.stages) >= 4
            /\ run.sender_calls[1] = run.final_message
            /\ run.final_message = (IF run.evaluation.passed_quality_check
                                    THEN run.ai_message ELSE ExpectedFallback)
    /\ Len(run.stages) >= 4 => Len(run.sender_calls) = 1

\* a run went through all five stages and the sender was given the fallback
C17_Witness ==
    /\ run.stages = StageOrder
    /\ run.decided = "sent_fallback"
    /\ run.sender_calls = <<ExpectedFallback>>
    /\ run.sender_calls # <<run.ai_message>>

\* a step in which send_reminder returned, so that
\* record_message_in_dashboard was called
RecordCalled == pc = "evaluating" /\ Returned'

\* the DailyStats of a day, a new one for a day without an entry
StatsOn(data, day) ==
    IF data.has_daily /\ HasDay(data.daily, DateKey(day))
    THEN DayStats(data.daily, DateKey(day))
    ELSE NewDailyStats

\* the status counter of DailyStats that belongs to a status
CounterOf(status) ==
    IF status = "sent_ai" THEN "sent"
    ELSE IF status = "sent_fallback" THEN "fallback" ELSE "failed"

\* C18: every record call adds 1 to today's count, the result's average to
\* today's total_score and 1 to the one status counter of the result's
\* status, appends one MessageRecord, and leaves the other days as they were
C18_RecordEffects ==
    [][RecordCalled =>
         LET today  == DayOf(now)
             before == StatsOn(dashboard_data, today)
             after  == StatsOn(dashboard_data', today)
             result == run'.result
             old    == dashboard_data.messages
             new    == dashboard_data'.messages
         IN  /\ dashboard_data'.has_daily /\ dashboard_data'.has_messages
             /\ after.count = before.count + 1
             /\ after.total_score = before.total_score + result.evaluation.avg
             /\ \A c \in {"sent", "fallback", "failed"} :
                   after[c] = before[c] + (IF c = CounterOf(result.status)
                                           THEN 1 ELSE 0)
             /\ new # <<>>
             /\ new[Len(new)] = MessageRecord(result, APPOINTMENT_DETAILS, now')
             /\ SubSeq(new, 1, Len(new) - 1)
                   \in {old, IF old = <<>> THEN old ELSE Tail(old)}
             /\ \A i \in 1..Len(dashboard_data.daily) :
                   dashboard_data.daily[i].key # DateKey(today)
                     => dashboard_data'.daily[i] = dashboard_data.daily[i]
             /\ Len(dashboard_data'.daily) \in
                   {Len(dashboard_data.daily), Len(dashboard_data.daily) + 1}]_vars

\* the durable file holds a DashboardState document
IsDashboardDocument(f) ==
    /\ f.exists
    /\ Decodable(f.tokens)
    /\ \E i \in 1..Len(f.tokens) : f.tokens[i] = KeyToken("messages")
    /\ \E i \in 1..Len(f.tokens) : f.tokens[i] = KeyToken("daily")

\* C19: a process started on a file that is not a DashboardState document has
\* the empty initial state, and no record call and no query of it fails
C19_BadFileLoadsEmpty ==
    /\ (pc = "warmup" /\ run = NoRun /\ ~IsDashboardDocument(file))
         => dashboard_data = EmptyDashboard
    /\ run.error # "record"
    /\ response.kind # "error"

\* C20: when the save of a record call fails, the scheduler sees no error and
\* the dashboard in memory has the record; until a restart the dashboard is
\* changed by record calls only, never reloaded from the file
C20_SaveFailureKeepsMemory ==
    [][/\ (RecordCalled /\ faults' = faults + 1)
            => /\ last_save' = "failed"
               /\ run'.error = "none"
               /\ pc' = "sleeping"
               /\ dashboard_data' = RecordInto(dashboard_data, run'.result,
                                               APPOINTMENT_DETAILS, DayOf(now), now')
       /\ (last_save = "failed" /\ pc' # "warmup" /\ ~RecordCalled)
            => dashboard_data' = dashboard_data]_vars

\* after a failed save a query is answered from the dashboard in memory, which
\* has the record the file lacks
C20_Witness ==
    /\ last_save = "failed"
    /\ Returned
    /\ run.error = "none"
    /\ Len(dashboard_data.messages) = 1
    /\ load_saved_data(file) # dashboard_data
    /\ response.kind = "ok"
    /\ response.body.summary.total = 1
    /\ response.body.recent[1].status = run.result.status

(***************************************************************************)
(* The threshold, the sender and the scheduler's iterations                *)
(***************************************************************************)
\* the evaluator has returned an EvaluationResult in this iteration
Evaluated ==
    /\ Len(run.stages) >= 2
    /\ run.error # "evaluator"
    /\ run.judge.outcome = "body"

\* C21 as stated: every EvaluationResult the evaluator returns passes exactly
\* when its average is at least the threshold, and every run with status
\* sent_ai has a score of at least the threshold
C21_PassedIffAtLeastThreshold ==
    /\ Evaluated =>
         (run.evaluation.passed_quality_check <=>
              run.evaluation.average_score >= evaluator.minimum_passing_score)
    /\ (Returned /\ run.result.status = "sent_ai") =>
         run.result.evaluation.avg >= evaluator.minimum_passing_score

\* C21 amended: an EvaluationResult the evaluator computes from the judge's
\* scores passes exactly when its average is at least the threshold; the
\* result it returns when the judgment could not be parsed has sub-scores and
\* average 0 and passes; so a run with status sent_ai has a score of at least
\* the threshold, or is such a run with score 0
C21_PassedIffAtLeastThresholdOrUnparsed ==
    /\ Evaluated =>
         \/ run.evaluation = ParseErrorResult
         \/ run.evaluation.passed_quality_check <=>
               run.evaluation.average_score >= evaluator.minimum_passing_score
    /\ (Evaluated /\ DecodesToFiveNumbers(run.judge)) =>
         run.evaluation # ParseErrorResult
    /\ (Returned /\ run.result.status = "sent_ai") =>
         \/ run.result.evaluation.avg >= evaluator.minimum_passing_score
         \/ /\ run.evaluation = ParseErrorResult
            /\ run.result.evaluation.avg = 0

\* a run was sent as generated on a decoded judgment of at least the threshold
C21_Witness ==
    /\ Returned
    /\ DecodesToFiveNumbers(run.judge)
    /\ run.evaluation.passed_quality_check
    /\ run.result.status = "sent_ai"
    /\ run.result.evaluation.avg >= evaluator.minimum_passing_score

\* C22: no exception of the sender leaves send_reminder; when the delivery
\* failed the run has reached done and returned a result with status failed,
\* the scheduler has called record_message_in_dashboard with it, and the call,
\* if it returned, has put that result last in the log
C22_SenderFailureStaysInside ==
    /\ run.error # "sender"
    /\ (run.sender_calls # <<>> /\ ~run.send_successful) =>
          /\ Returned
          /\ run.result.status = "failed"
          /\ run.record_calls = 1
          /\ run.error = "none" => LastRunRecorded

\* the client raised while sending the generated text: the run returned
\* failed and the record is last in the log
C22_Witness ==
    /\ Returned
    /\ run.sender_calls = <<run.ai_message>>
    /\ ~run.send_successful
    /\ run.decided = "sent_ai"
    /\ run.record_calls = 1
    /\ run.error = "none"
    /\ dashboard_data.messages[Len(dashboard_data.messages)].status = "failed"

\* C23: every iteration that has ended reached the sending step and called
\* the sender once, with the generated text or the filled template
C23_EveryIterationSends ==
    pc = "sleeping" =>
        /\ \E i \in 1..Len(run.stages) : run.stages[i] = "sending"
        /\ Len(run.sender_calls) = 1
        /\ run.sender_calls[1] \in {run.ai_message, ExpectedFallback}

\* C24: an iteration in which an exception was caught is waiting in the
\* interval sleep of line 129, where an iteration that returned waits too; a
\* run is in flight only with no exception raised in its iteration, so a new
\* run begins only when that sleep is over; and the task in its warm-up sleep
\* has run nothing
C24_SleepsAfterFailure ==
    /\ run.error \in {"writer", "evaluator", "record"} => pc = "sleeping"
    /\ (Returned /\ run.error = "none") => pc = "sleeping"
    /\ pc \in {"generating", "evaluating"} =>
          /\ run.error = "none"
          /\ ~Returned
          /\ run.sender_calls = <<>>
    /\ pc = "warmup" => run = NoRun

\* an iteration raised and the task is in the interval sleep
C24_Witness ==
    /\ pc = "sleeping"
    /\ run.error = "evaluator"
    /\ run.sender_calls = <<>>

(***************************************************************************)
(* The dashboard between record calls                                      *)
(***************************************************************************)
\* C25: when the last record call of the process wrote the file, the file
\* holds the document of the dashboard in memory and loads to that dashboard
C25_FileEqualsMemory ==
    last_save = "ok" =>
        /\ file = FileOf(JsonDump(dashboard_data))
        /\ load_saved_data(file) = dashboard_data

\* a record call on the loaded log of 50 has written the file, and the
\* scheduler is in a later await
C25_Witness ==
    /\ last_save = "ok"
    /\ Returned
    /\ run.error = "none"
    /\ Len(dashboard_data.messages) = MaxMessages
    /\ file.exists
    /\ response.kind = "ok"

\* the order of two isoformat() timestamps
IsoLeq(a, b) ==
    LET ka == <<a[1][1], a[1][3], a[1][5], a[3]>>
        kb == <<b[1][1], b[1][3], b[1][5], b[3]>>
    IN  \/ ka = kb
        \/ \E i \in 1..4 : /\ ka[i] < kb[i]
                           /\ \A j \in 1..(i - 1) : ka[j] = kb[j]

\* the timestamps of the log never decrease from one record to the next
TimesNonDecreasing ==
    dashboard_data.has_messages =>
        \A i \in 1..(Len(dashboard_data.messages) - 1) :
            IsoLeq(dashboard_data.messages[i].time,
                   dashboard_data.messages[i + 1].time)

\* the log changes, in a running process, only by a run that has just
\* returned: its record is put last and the records before it are the old
\* log, whole or without its first record, in their old order
AppendsLast ==
    (/\ dashboard_data.has_messages
     /\ dashboard_data'.has_messages
     /\ dashboard_data'.messages # dashboard_data.messages
     /\ pc' # "warmup") =>
        LET old == dashboard_data.messages
            new == dashboard_data'.messages
        IN  /\ RecordCalled
            /\ new # <<>>
            /\ new[Len(new)] =
                 MessageRecord(run'.result, APPOINTMENT_DETAILS, now')
            /\ \/ SubSeq(new, 1, Len(new) - 1) = old
               \/ /\ old # <<>>
                  /\ SubSeq(new, 1, Len(new) - 1) = Tail(old)

ProcessStarted ==
    /\ pc' = "warmup"
    /\ run' = NoRun
    /\ faults' = faults + 1
    /\ dashboard_data' = load_saved_data(file)

\* C27: the dashboard in memory changes only in a record call or when a new
\* process loads the file, and the file only in a record call; a query, an
\* iteration that raised in the pipeline and the end of a sleep leave the
\* daily map, the log and the file as they were
C27_OnlyRecordChanges ==
    [][/\ dashboard_data' # dashboard_data => (RecordCalled \/ ProcessStarted)
       /\ file' # file => RecordCalled
       /\ (\/ response' # NoResponse
           \/ /\ pc \in {"generating", "evaluating"}
              /\ run'.error \in {"writer", "evaluator"}
           \/ /\ pc \in {"warmup", "sleeping"}
              /\ pc' = "generating")
            => /\ dashboard_data' = dashboard_data
               /\ file' = file]_vars

\* after an iteration that raised in the pipeline a query was answered: the
\* dashboard is the loaded log of 50 and the file is the one the process
\* started on
C27_Witness ==
    /\ pc = "sleeping"
    /\ run.error = "writer"
    /\ response.kind = "ok"
    /\ Len(dashboard_data.messages) = MaxMessages
    /\ dashboard_data = load_saved_data(file)

\* C28: a record call that changes the log stores, in the record it appends,
\* the average_score of the EvaluationResult and the status of the run just
\* returned, stamped with the clock of the call; the records of the old log
\* that are not evicted are in the new log with every field as it was
C28_ScoreStoredAndKept ==
    [][(/\ dashboard_data.has_messages
        /\ dashboard_data'.has_messages
        /\ dashboard_data'.messages # dashboard_data.messages
        /\ pc' # "warmup") =>
           LET old     == dashboard_data.messages
               new     == dashboard_data'.messages
               evicted == Len(old) + 1 - Len(new)
           IN  /\ evicted \in {0, 1}
               /\ new[Len(new)].score = run'.evaluation.average_score
               /\ new[Len(new)].status = run'.result.status
               /\ new[Len(new)].time = IsoFormat(now')
               /\ \A i \in (evicted + 1)..Len(old) : new[i - evicted] = old[i]]_vars

\* a run judged 4.8 is recorded last in the log of 50 with score 4.8; before
\* it stand the records of earlier runs with their scores
C28_Witness ==
    /\ Returned
    /\ run.error = "none"
    /\ run.evaluation.average_score = 4800
    /\ Len(dashboard_data.messages) = MaxMessages
    /\ dashboard_data.messages[MaxMessages].score = 4800
    /\ dashboard_data.messages[MaxMessages - 1].score = 0
    /\ dashboard_data.messages[MaxMessages - 2].score = 2400

\* the statuses a result can have
Statuses == {"sent_ai", "sent_fallback", "failed"}

\* C29: a query that is answered has seen the dashboard as whole record calls
\* leave it: at most 50 records, every day's count equal to the sum of its
\* three status counters, and for each status no fewer runs counted over the
\* days than there are records of that status in the log, exactly as many
\* while no record has been evicted; after a run that was recorded the answer
\* shows its record first in the recent feed
C29_QuerySeesWholeRecords ==
    response.kind = "ok" =>
        LET summary == response.body.summary
        IN  /\ summary.total = Len(dashboard_data.messages)
            /\ summary.total <= MaxMessages
            /\ \A i \in 1..Len(dashboard_data.daily) :
                  LET s == dashboard_data.daily[i].stats
                  IN  s.count = s.sent + s.fallback + s.failed
            /\ SumField(dashboard_data.daily, "count") >= summary.total
            /\ \A status \in Statuses :
                  /\ SumField(dashboard_data.daily, CounterOf(status))
                        >= summary[status]
                  /\ summary.total < MaxMessages =>
                        SumField(dashboard_data.daily, CounterOf(status))
                           = summary[status]
            /\ (Returned /\ run.error = "none") =>
                  /\ response.body.recent[1].status = run.result.status
                  /\ response.body.recent[1].score = run.result.evaluation.avg
                  /\ SumField(dashboard_data.daily,
                              CounterOf(run.result.status)) >= 1

\* a query answered while the scheduler sleeps after its run was recorded as
\* the first record of the log
C29_Witness ==
    /\ pc = "sleeping"
    /\ Returned
    /\ run.error = "none"
    /\ response.kind = "ok"
    /\ response.body.summary.total = 1
    /\ response.body.summary.sent_fallback = 1
    /\ SumField(dashboard_data.daily, "count") = 1
    /\ SumField(dashboard_data.daily, "fallback") = 1

\* C30: wherever the scheduler task is suspended or has stopped, cancelled or
\* not, the sender has been called in the current iteration as often as
\* record_message_in_dashboard, at most once, and the text it was given is the
\* message of the result the record call was given; so over all iterations
\* there are as many delivery attempts as record calls
C30_EverySendRecorded ==
    /\ Len(run.sender_calls) = run.record_calls
    /\ run.record_calls <= 1
    /\ run.record_calls = 1 =>
          /\ Returned
          /\ run.sender_calls = <<run.result.message>>
          /\ run.error \in {"none", "record", "cancelled"}
    /\ (run.record_calls = 1 /\ run.error = "none") => LastRunRecorded

\* the task was cancelled in its interval sleep after a run whose reminder was
\* delivered and recorded
C30_Witness ==
    /\ pc = "stopped"
    /\ run.error = "cancelled"
    /\ Len(run.sender_calls) = 1
    /\ run.send_successful
    /\ run.record_calls = 1
    /\ LastRunRecorded

C32_FailedWriteKeepsLastSave ==
    [][(RecordCalled /\ last_save' = "failed" /\ faults' = faults + 1) =>
          load_saved_data(file') = load_saved_data(file)]_vars

====
